---- MODULE Spec2Model ----
(***************************************************************************)
(* State-machine model of static/js/app.js (class MarketingVideoApp):      *)
(* session initialisation and reset, the stream consumer, the fallback     *)
(* content extractor and the gallery reconciliation with its persistence.  *)
(*                                                                         *)
(* Strings that the code only inspects lexically are sequences of lexical  *)
(* units: a media path is e.g. <<"/generated/", "a", ".png">>.  A response *)
(* text is a sequence of segments; a segment is a stretch of text that one *)
(* of the extractor's regular expressions matches as a whole, carrying the *)
(* capture groups of that match.                                           *)
(***************************************************************************)
EXTENDS Integers, Sequences, FiniteSets, TLC

(***************************************************************************)
(* Bounds of the model.                                                    *)
(***************************************************************************)
MaxGallery == 2     \* longest gallery list explored
MaxBuf == 2         \* most text segments a response carries
MaxCreates == 1     \* most POST /sessions requests in flight
MaxMsgs == 3        \* a turn starts while the chat pane has fewer elements

Turns == {"t1", "t2"}          \* slots for turns in flight
SessionIds == {"s1"}           \* ids the backend hands out
NoSession == "null"            \* this.sessionId = null
FallbackId == "fallback"       \* 'fallback-' + Date.now()

(***************************************************************************)
(* Lexical units of media paths.                                           *)
(***************************************************************************)
GEN == "/generated/"
NameUnits == {"a", "b"}
MediaExts == {".png", ".jpg", ".jpeg", ".gif", ".webp", ".mp4", ".webm", ".mov"}
StillExts == {".png", ".jpg", ".jpeg"}
NoPath == << >>                \* null / '' (both falsy)

PathA == <<GEN, "a", ".png">>          \* /generated/a.png
PathAenc == <<GEN, "%61", ".png">>     \* /generated/%61.png
PathV == <<GEN, "a", ".mp4">>          \* /generated/a.mp4
PathB == <<GEN, "b", ".png">>          \* /generated/b.png
PathX == <<"/static/", "x", ".png">>   \* /static/x.png


\* limits of the caption and hashtag extraction
CaptionMax == 800
HashtagMax == 25
SlideWindow == 500
MinCaption == 10

\* a caption of CaptionMax + 1 characters
LongCaption ==
    LET x100 == "xxxxxxxxxxxxxxxxxxxxxxxxxxxxxxxxxxxxxxxxxxxxxxxxxx"
                    \o "xxxxxxxxxxxxxxxxxxxxxxxxxxxxxxxxxxxxxxxxxxxxxxxxxx"
    IN  x100 \o x100 \o x100 \o x100 \o x100 \o x100 \o x100 \o x100 \o "y"

\* HashtagMax + 1 hashtags, the first one written twice
ManyTags ==
    [i \in 1..(HashtagMax + 1) |-> IF i = 1 THEN "#t2" ELSE "#t" \o ToString(i)]

(***************************************************************************)
(* sanitizeImagePath                                                       *)
(***************************************************************************)
DecodeUnit(u) == IF u = "%61" THEN "a" ELSE u

\* decodeURIComponent throws on a malformed escape ("%"); the catch keeps
\* the path as it was.
decodeURIComponent(p) ==
    IF \E i \in 1..Len(p) : p[i] = "%"
    THEN p
    ELSE [i \in 1..Len(p) |-> DecodeUnit(p[i])]

StripPrefix(p, unit) ==
    IF p # << >> /\ Head(p) = unit THEN Tail(p) ELSE p

\* imagePath.match(/\[([^\]]*)\]\(([^)]+)\)/): the target of the leftmost
\* markdown link; the unit "[](" is "[text](" and ")" closes the link.
LinkStarts(p) ==
    {i \in 1..Len(p) : /\ p[i] = "[]("
                       /\ i + 1 <= Len(p)
                       /\ p[i + 1] # ")"
                       /\ \E j \in (i + 2)..Len(p) : p[j] = ")"}

MinOf(S) == CHOOSE x \in S : \A y \in S : x <= y

LinkTarget(p) ==
    IF LinkStarts(p) = {}
    THEN p
    ELSE LET i == MinOf(LinkStarts(p))
             j == MinOf({k \in (i + 2)..Len(p) : p[k] = ")"})
         IN  SubSeq(p, i + 1, j - 1)

\* imagePath.match(/(\/generated\/[a-zA-Z0-9_-]+\.(?:png|...|mov))/i)
GenMatches(p) ==
    {ik \in (1..Len(p)) \X (1..Len(p)) :
        /\ p[ik[1]] = GEN
        /\ ik[2] > ik[1] + 1
        /\ p[ik[2]] \in MediaExts
        /\ \A m \in (ik[1] + 1)..(ik[2] - 1) : p[m] \in NameUnits}

GenPart(p) ==
    IF (\E i \in 1..Len(p) : p[i] = GEN) /\ GenMatches(p) # {}
    THEN LET i == MinOf({ik[1] : ik \in GenMatches(p)})
             k == MinOf({ik[2] : ik \in {m \in GenMatches(p) : m[1] = i}})
         IN  SubSeq(p, i, k)
    ELSE p

sanitizeImagePath(imagePath) ==
    IF imagePath = NoPath
    THEN NoPath
    ELSE LET decoded == decodeURIComponent(imagePath)
             bare == StripPrefix(StripPrefix(StripPrefix(decoded,
                         "**Image:**"), "<cam>Image:"), "Image:")
             linked == LinkTarget(bare)
             part == GenPart(linked)
         IN  IF part = << >> \/ part[1] # GEN \/ part[Len(part)] \notin MediaExts
             THEN NoPath
             ELSE part

(***************************************************************************)
(* Response text: segments.                                                *)
(*   post     "Post N created" + Image + Caption     (Pattern 1)           *)
(*   carousel "Carousel Complete" + shared Caption   (Pattern 1.5)         *)
(*   cell     a path in a cell of the slide table    (Pattern 1.5)         *)
(*   slide    "Slide N of M" + Image                 (Pattern 1.6)         *)
(*   labeled  **Image:** + **Caption:**              (Pattern 2)           *)
(*   intro    "Here is your post" + Image + Caption  (Pattern 3)           *)
(*   near     path with a Caption: within 200 chars  (Pattern 4)           *)
(*   bare     an image path none of the above pairs                        *)
(*   video    a video path                                                 *)
(*   caption  a caption block away from any image                          *)
(*   word     any other text                                               *)
(* image is the captured path, caption and hashtags what the strategy      *)
(* reads for it.                                                           *)
(***************************************************************************)
Seg(k, image, caption, hashtags) ==
    [k |-> k, image |-> image, caption |-> caption, hashtags |-> hashtags]

\* the response texts explored are made of these
Segments ==
    {Seg("post", PathA, "Hello", <<"#x">>),
     Seg("post", PathAenc, "Hello", << >>),
     Seg("video", PathV, "", << >>)}

\* and, where two streams and damaged lines are explored, of these
StreamSegments ==
    {Seg("post", PathA, "Hello", <<"#x">>),
     Seg("video", PathV, "", << >>)}

Includes(s, x) == \E i \in 1..Len(s) : s[i] = x

\* a slice that keeps every entry
Take_All(s, n) == s

\* s.slice(0, n)
Take(s, n) == SubSeq(s, 1, IF Len(s) < n THEN Len(s) ELSE n)

\* a substring that keeps the whole string
substring_Whole(str, n) == str

\* str.substring(0, n)
substring(str, n) == IF Len(str) <= n THEN str ELSE SubSeq(str, 1, n)

\* path.startsWith('/') ? path : '/' + path
WithSlash(p) ==
    IF p # << >> /\ Head(p) = "generated/" THEN <<GEN>> \o Tail(p) ELSE p

RECURSIVE StrategyPairs(_, _, _)
\* one strategy's while-loop over its matches, with its pairs.find dedup
StrategyPairs(text, kind, pairs) ==
    IF text = << >>
    THEN pairs
    ELSE LET s == Head(text)
             path == WithSlash(s.image)
         IN  IF s.k = kind /\ ~\E i \in 1..Len(pairs) : pairs[i].image = path
             THEN StrategyPairs(Tail(text), kind,
                      Append(pairs,
                          IF kind = "slide"
                          THEN [image |-> path,
                                caption |-> substring(s.caption, SlideWindow),
                                hashtags |-> << >>]
                          ELSE [image |-> path,
                                caption |-> substring(s.caption, CaptionMax),
                                hashtags |-> Take(s.hashtags, HashtagMax)]))
             ELSE StrategyPairs(Tail(text), kind, pairs)

RECURSIVE TextHashtags(_)
\* text.match(/#[a-zA-Z][a-zA-Z0-9_]*/g)
TextHashtags(text) ==
    IF text = << >> THEN << >> ELSE Head(text).hashtags \o TextHashtags(Tail(text))

RECURSIVE TextCaption(_)
\* the first "Caption:" block of the text (a "caption" segment is such a
\* block standing more than 200 characters away from any path)
TextCaption(text) ==
    IF text = << >> THEN ""
    ELSE IF Head(text).k \in {"caption", "carousel"}
         THEN Head(text).caption
         ELSE TextCaption(Tail(text))

RECURSIVE PathsOf(_, _, _)
\* the distinct paths of the segments of one kind, in order of appearance
PathsOf(text, kind, acc) ==
    IF text = << >>
    THEN acc
    ELSE LET path == WithSlash(Head(text).image)
         IN  IF Head(text).k = kind /\ ~Includes(acc, path)
             THEN PathsOf(Tail(text), kind, Append(acc, path))
             ELSE PathsOf(Tail(text), kind, acc)

\* Pattern 1.5: the paths of the image patterns, pattern by pattern, into a
\* Set: table cells first, then the "Image:" forms
CarouselImages(text) ==
    LET cells == PathsOf(text, "cell", << >>)
        slides == PathsOf(text, "slide", cells)
        labeled == PathsOf(text, "labeled", slides)
    IN  SelectSeq(PathsOf(text, "intro", labeled),
                  LAMBDA p : p # << >> /\ Head(p) = GEN)

\* Pattern 1.5: every image of a completed carousel gets the shared caption
\* and the hashtags of the whole text
CarouselPairs(text) ==
    IF ~\E i \in 1..Len(text) : text[i].k = "carousel"
    THEN << >>
    ELSE LET images == CarouselImages(text)
         IN  [i \in 1..Len(images) |->
                 [image |-> images[i],
                  caption |-> substring(TextCaption(text), CaptionMax),
                  hashtags |-> Take(TextHashtags(text), HashtagMax)]]

StrategyOrder == <<"post", "carousel", "slide", "labeled", "intro", "near">>

\* the pairs of the n-th strategy on its own
PairsOf(text, n) ==
    IF StrategyOrder[n] = "carousel"
    THEN CarouselPairs(text)
    ELSE StrategyPairs(text, StrategyOrder[n], << >>)

RECURSIVE FirstStrategy(_, _)
\* every strategy after the first runs under if (pairs.length === 0)
FirstStrategy(text, n) ==
    IF n > Len(StrategyOrder)
    THEN << >>
    ELSE LET pairs == PairsOf(text, n)
         IN  IF pairs # << >> THEN pairs ELSE FirstStrategy(text, n + 1)

extractImageCaptionPairs(text) == FirstStrategy(text, 1)

(***************************************************************************)
(* Gallery and its persisted copy.  A gallery value g has                  *)
(*   imgs   this.generatedImages                                           *)
(*   meta   this.generatedImagesMeta (a map: path -> caption, hashtags)    *)
(*   simgs  localStorage content_studio_images                             *)
(*   smeta  localStorage content_studio_images_meta                        *)
(***************************************************************************)
Absent == [present |-> FALSE]
Item(v) == [present |-> TRUE, value |-> v]
NoMeta == [k \in {} |-> [caption |-> "", hashtags |-> << >>]]

SetMeta(meta, key, caption, hashtags) ==
    [k \in DOMAIN meta \cup {key} |->
        IF k = key THEN [caption |-> caption, hashtags |-> hashtags] ELSE meta[k]]

saveImagesToStorage(g) ==
    [g EXCEPT !.simgs = Item(g.imgs), !.smeta = Item(g.meta)]

addImageToGalleryWithCaption(g, imagePath, caption, hashtags) ==
    LET p == sanitizeImagePath(imagePath)
    IN  IF p = NoPath THEN g
        ELSE [g EXCEPT !.meta = SetMeta(g.meta, p, caption, hashtags)]

updateGalleryCardWithCaption(g, imagePath, caption, hashtags) ==
    LET p == sanitizeImagePath(imagePath)
    IN  IF p = NoPath THEN g
        ELSE [g EXCEPT !.meta = SetMeta(g.meta, p, caption, hashtags)]

addVideoToGalleryWithCaption(g, videoPath, caption, hashtags) ==
    LET p == sanitizeImagePath(videoPath)
    IN  IF p = NoPath THEN g
        ELSE [g EXCEPT !.meta = SetMeta(g.meta, p, caption, hashtags)]

\* renders a card only; list and metadata are left alone
addImageToGallery(g, imagePath) == g

\* the forEach body without its includes test: every pair is pushed
ReconcilePair_NoDedup(g, pair) ==
    saveImagesToStorage(
        addImageToGalleryWithCaption(
            [g EXCEPT !.imgs = Append(g.imgs, pair.image)],
            pair.image, pair.caption, pair.hashtags))

\* the body of imageCaptionPairs.forEach
ReconcilePair(g, pair) ==
    IF ~Includes(g.imgs, pair.image)
    THEN saveImagesToStorage(
             addImageToGalleryWithCaption(
                 [g EXCEPT !.imgs = Append(g.imgs, pair.image)],
                 pair.image, pair.caption, pair.hashtags))
    ELSE IF pair.caption # "" \/ pair.hashtags # << >>
         THEN saveImagesToStorage(
                  updateGalleryCardWithCaption(g, pair.image, pair.caption,
                                               pair.hashtags))
         ELSE g

RECURSIVE ReconcilePairs(_, _)
ReconcilePairs(g, pairs) ==
    IF pairs = << >> THEN g
    ELSE ReconcilePairs(ReconcilePair(g, Head(pairs)), Tail(pairs))

\* the body of allMatches.forEach (no-pairing fallback)
ReconcileBare(g, imgPath, text) ==
    IF ~Includes(g.imgs, imgPath)
    THEN LET g1 == [g EXCEPT !.imgs = Append(g.imgs, imgPath)]
             cm == TextCaption(text)
             caption == IF Len(cm) > MinCaption
                        THEN substring(cm, CaptionMax) ELSE ""
             hashtags == Take(TextHashtags(text), HashtagMax)
         IN  saveImagesToStorage(
                 IF caption # "" \/ hashtags # << >>
                 THEN addImageToGalleryWithCaption(g1, imgPath, caption, hashtags)
                 ELSE addImageToGallery(g1, imgPath))
    ELSE g

RECURSIVE ReconcileBares(_, _, _)
ReconcileBares(g, paths, text) ==
    IF paths = << >> THEN g
    ELSE ReconcileBares(ReconcileBare(g, Head(paths), text), Tail(paths), text)

\* this.generatedImages.filter(p => /\.(png|jpg|jpeg)$/i.test(p)).pop()
LastImage(imgs) ==
    LET stills == SelectSeq(imgs, LAMBDA p : p # << >> /\ p[Len(p)] \in StillExts)
    IN  IF stills = << >> THEN NoPath ELSE stills[Len(stills)]

\* the body of videos.forEach
ReconcileVideo(g, videoPath) ==
    IF ~Includes(g.imgs, videoPath)
    THEN LET g1 == [g EXCEPT !.imgs = Append(g.imgs, videoPath)]
             lastImage == LastImage(g1.imgs)
             known == lastImage # NoPath /\ lastImage \in DOMAIN g1.meta
             videoCaption == IF known THEN g1.meta[lastImage].caption ELSE ""
             videoHashtags == IF known THEN g1.meta[lastImage].hashtags ELSE << >>
         IN  saveImagesToStorage(
                 IF videoCaption # "" \/ videoHashtags # << >>
                 THEN addVideoToGalleryWithCaption(g1, videoPath, videoCaption,
                                                   videoHashtags)
                 ELSE addImageToGallery(g1, videoPath))
    ELSE g

RECURSIVE ReconcileVideos(_, _)
ReconcileVideos(g, paths) ==
    IF paths = << >> THEN g
    ELSE ReconcileVideos(ReconcileVideo(g, Head(paths)), Tail(paths))

\* parseAssistantResponse whose bare-reference scan is not in the else branch
parseAssistantResponse_Always(g, text) ==
    LET imageCaptionPairs == extractImageCaptionPairs(text)
        g1 == ReconcileBares(ReconcilePairs(g, imageCaptionPairs),
                             PathsOf(text, "bare", << >>), text)
    IN  ReconcileVideos(g1, PathsOf(text, "video", << >>))

parseAssistantResponse(g, text) ==
    LET imageCaptionPairs == extractImageCaptionPairs(text)
        g1 == IF imageCaptionPairs # << >>
              THEN ReconcilePairs(g, imageCaptionPairs)
              ELSE ReconcileBares(g, PathsOf(text, "bare", << >>), text)
    IN  ReconcileVideos(g1, PathsOf(text, "video", << >>))

VideoExts == {".mp4", ".webm", ".mov"}

\* the body of images.forEach in restoreImagesFromStorage: the card of an
\* item is rebuilt from the metadata found under the path as it is stored
RestoreItem(g, imgUrl) ==
    IF Includes(g.imgs, imgUrl) THEN g
    ELSE LET g1 == [g EXCEPT !.imgs = Append(g.imgs, imgUrl)]
             known == imgUrl \in DOMAIN g1.meta
             caption == IF known THEN g1.meta[imgUrl].caption ELSE ""
             hashtags == IF known THEN g1.meta[imgUrl].hashtags ELSE << >>
             isVideo == imgUrl # << >> /\ imgUrl[Len(imgUrl)] \in VideoExts
         IN  IF isVideo
             THEN addVideoToGalleryWithCaption(g1, imgUrl, caption, hashtags)
             ELSE IF known /\ (caption # "" \/ hashtags # << >>)
                  THEN addImageToGalleryWithCaption(g1, imgUrl, caption, hashtags)
                  ELSE addImageToGallery(g1, imgUrl)

RECURSIVE RestoreList(_, _)
RestoreList(g, images) ==
    IF images = << >> THEN g
    ELSE RestoreList(RestoreItem(g, Head(images)), Tail(images))

restoreImagesFromStorage(g) ==
    LET g0 == [g EXCEPT !.meta = IF g.smeta.present THEN g.smeta.value ELSE NoMeta]
    IN  IF g.simgs.present /\ g.simgs.value # << >>
        THEN RestoreList([g0 EXCEPT !.imgs = << >>], g.simgs.value)
        ELSE g0

(***************************************************************************)
(* Structured envelope.  A "json" segment is a brace block {...} of the    *)
(* response text:                                                          *)
(*   form    simple   no nested braces, with "text": "..." and             *)
(*                    "has_choices": true|false (jsonPattern matches it)   *)
(*           complex  with "text": "..." and "choices": [...]              *)
(*                    (complexJsonPattern matches it)                      *)
(*           other    a brace block neither pattern matches                *)
(*   rawOk   JSON.parse accepts the block as it stands                     *)
(*   cleanOk JSON.parse accepts it once its line breaks are escaped        *)
(*   text, has_choices, choices: the fields of the parsed object;          *)
(*           has_choices is "true", "false" or "undefined"                 *)
(***************************************************************************)
Envelope(form, rawOk, cleanOk, text, has_choices, choices) ==
    [k |-> "json", image |-> NoPath, caption |-> "", hashtags |-> << >>,
     form |-> form, rawOk |-> rawOk, cleanOk |-> cleanOk, text |-> text,
     has_choices |-> has_choices, choices |-> choices]

Parsed(s) == [text |-> s.text, has_choices |-> s.has_choices, choices |-> s.choices]

\* text.trim().startsWith('{') && text.trim().endsWith('}')
LooksPure(text) ==
    text # << >> /\ Head(text).k = "json" /\ text[Len(text)].k = "json"

\* JSON.parse(text.trim()) throws unless the text is one well-formed block
PureThrows(text) == Len(text) > 1 \/ ~Head(text).rawOk

RECURSIVE SimpleEnvelope(_)
\* Pattern 2: the matches of jsonPattern in order; a match that does not
\* parse is skipped by the inner catch
SimpleEnvelope(text) ==
    IF text = << >> THEN Absent
    ELSE LET s == Head(text)
         IN  IF s.k = "json" /\ s.form = "simple" /\ s.rawOk
             THEN Item(Parsed(s))
             ELSE SimpleEnvelope(Tail(text))

RECURSIVE ComplexEnvelope(_, _)
\* Pattern 3: the matches of complexJsonPattern in order.  A match starts at
\* the first brace not yet consumed, so a brace block in front of a complex
\* envelope is part of its match (merged) and the match does not parse.
ComplexEnvelope(text, merged) ==
    IF text = << >> THEN Absent
    ELSE LET s == Head(text)
         IN  IF s.k = "json" /\ s.form = "complex"
             THEN IF ~merged /\ s.cleanOk
                  THEN Item(Parsed(s))
                  ELSE ComplexEnvelope(Tail(text), FALSE)
             ELSE ComplexEnvelope(Tail(text), merged \/ s.k = "json")

parseStructuredResponse(text) ==
    LET pure == LooksPure(text) /\ ~PureThrows(text)
                    /\ Head(text).form # "other"
                    /\ Head(text).has_choices # "undefined"
        simple == SimpleEnvelope(text)
    IN  IF LooksPure(text) /\ PureThrows(text) THEN Absent     \* outer catch
        ELSE IF pure THEN Item(Parsed(Head(text)))
        ELSE IF simple.present THEN simple
        ELSE ComplexEnvelope(text, FALSE)

RECURSIVE RawText(_)
\* the text as the patterns of the extractor and of the choice detector see
\* it: inside a brace block the line breaks are escaped, so of its text only
\* the media paths, the hashtags and the one-line choice forms still match
RawText(text) ==
    IF text = << >> THEN << >>
    ELSE LET s == Head(text)
             inner == SelectSeq(s.text,
                          LAMBDA x : \/ x.image # NoPath
                                     \/ x.k \in {"emojiOut", "emojiIn", "paren"})
         IN  (IF s.k # "json" THEN <<s>>
              ELSE [i \in 1..Len(inner) |->
                       IF inner[i].image = NoPath THEN inner[i]
                       ELSE Seg(IF inner[i].k = "video" THEN "video" ELSE "bare",
                                inner[i].image, "", inner[i].hashtags)])
             \o RawText(Tail(text))

\* the part of handleStructuredResponse that reaches the gallery
handleStructuredResponse(g, response) == parseAssistantResponse(g, response.text)

(***************************************************************************)
(* Choices in a response text.  Further segments:                          *)
(*   emojiOut  <emoji> **Label** - description          (Pattern 1a)       *)
(*   emojiIn   **<emoji> Label** - description          (Pattern 1b)       *)
(*   paren     (opt / opt / opt)                        (Pattern 2)        *)
(*   bullets   "would you like to:" + bulleted options  (Pattern 4)        *)
(***************************************************************************)
ChoiceSeg(k, icon, label, description) ==
    [k |-> k, image |-> NoPath, caption |-> "", hashtags |-> << >>,
     icon |-> icon, label |-> label, description |-> description]

OptionsSeg(k, options) ==
    [k |-> k, image |-> NoPath, caption |-> "", hashtags |-> << >>,
     options |-> options]

MinChoices == 2
MaxChoices == 8

\* label.toLowerCase() on the labels explored
ToLower(label) ==
    CASE label = "Yes" -> "yes"
      [] label = "No" -> "no"
      [] label = "Skip" -> "skip"
      [] OTHER -> label

getChoiceIcon(text) ==
    LET lower == ToLower(text)
    IN  CASE lower = "yes" -> "check"
          [] lower = "no" -> "cross"
          [] lower = "skip" -> "next"
          [] OTHER -> ""

Choice(icon, label, description) ==
    [icon |-> icon, label |-> label, value |-> label, description |-> description]

RECURSIVE OptionChoices(_)
\* the options of one parenthesis or bullet block; empty options are skipped
OptionChoices(options) ==
    IF options = << >> THEN << >>
    ELSE (IF Head(options) = "" THEN << >>
          ELSE <<Choice(getChoiceIcon(Head(options)), Head(options), "")>>)
         \o OptionChoices(Tail(options))

RECURSIVE Candidates(_, _)
\* the matches of one pattern over the text, in order of appearance
Candidates(text, kind) ==
    IF text = << >> THEN << >>
    ELSE LET s == Head(text)
         IN  (IF s.k # kind THEN << >>
              ELSE IF kind \in {"emojiOut", "emojiIn"}
                   THEN <<Choice(s.icon, s.label, s.description)>>
                   ELSE OptionChoices(s.options))
             \o Candidates(Tail(text), kind)

\* the four patterns run in another order
ChoiceOrder_BulletsFirst == <<"bullets", "paren", "emojiIn", "emojiOut">>

ChoiceOrder == <<"emojiOut", "emojiIn", "paren", "bullets">>

RECURSIVE AllCandidates(_, _)
AllCandidates(text, n) ==
    IF n > Len(ChoiceOrder) THEN << >>
    ELSE Candidates(text, ChoiceOrder[n]) \o AllCandidates(text, n + 1)

RECURSIVE SeenLabels(_, _)
\* if (!seenLabels.has(label.toLowerCase())) { seenLabels.add; choices.push }
SeenLabels(cands, choices) ==
    IF cands = << >> THEN choices
    ELSE SeenLabels(Tail(cands),
             IF \E i \in 1..Len(choices) :
                    ToLower(choices[i].label) = ToLower(Head(cands).label)
             THEN choices
             ELSE Append(choices, Head(cands)))

\* the choices array before the final length test
DistinctCandidates(text) == SeenLabels(AllCandidates(text, 1), << >>)

\* the detector without its final test on the number of choices
detectChoicesInMessage_Unbounded(text) == DistinctCandidates(text)

detectChoicesInMessage(text) ==
    LET choices == DistinctCandidates(text)
    IN  IF Len(choices) >= MinChoices /\ Len(choices) <= MaxChoices
        THEN choices
        ELSE << >>

(***************************************************************************)
(* Transcript.  chatMessages is the list of .message elements of the chat  *)
(* pane; an element has a role, the innerHTML of its .message-text and the *)
(* choice buttons rendered under it.                                       *)
(***************************************************************************)
\* what the user types, the brand summary of handleBrandSubmit and the two
\* notices of the catch blocks
UserText == <<Seg("word", NoPath, "", << >>)>>
BrandText == <<Seg("brand", NoPath, "", << >>)>>
SorryText == <<Seg("sorry", NoPath, "", << >>)>>
SavedText == <<Seg("saved", NoPath, "", << >>)>>

\* markdown to HTML.  Of the HTML the model keeps what the code reads back
\* from it: whether it is the empty string (saveMessagesToStorage) and the
\* stretches a choice pattern can match (addMessage of a restored message)
formatMessage(text) ==
    [empty |-> text = << >>,
     html |-> SelectSeq(text, LAMBDA s : s.k \in {"emojiOut", "emojiIn",
                                                  "paren", "bullets"})]

NoHtml == formatMessage(<< >>)

Element(role, content, choices, structured) ==
    [role |-> role, content |-> content, choices |-> choices,
     structured |-> structured, disabled |-> FALSE]

\* querySelectorAll('.message') with the elements of empty content left out
StoredMessages(chat) ==
    LET kept == SelectSeq(chat, LAMBDA m : m.content # NoHtml)
    IN  [i \in 1..Len(kept) |-> [role |-> kept[i].role,
                                  content |-> kept[i].content]]

\* c is the pair chat (the pane) and smsgs (content_studio_messages)
saveMessagesToStorage(c) == [c EXCEPT !.smsgs = Item(StoredMessages(c.chat))]

\* the text of a restored element as the choice patterns see it: the bold
\* markers and the line breaks are HTML by now
HtmlText(content) ==
    SelectSeq(content.html, LAMBDA s : s.k \notin {"emojiOut", "emojiIn", "bullets"})

\* addMessage(text, role) of a message that is not streaming
addMessage(c, text, role) ==
    LET choices == IF role = "assistant" THEN detectChoicesInMessage(text)
                   ELSE << >>
    IN  saveMessagesToStorage(
            [c EXCEPT !.chat = Append(c.chat,
                 Element(role, formatMessage(text), choices, FALSE))])

\* addMessage(content, role, false, true): content is HTML already
addPreformatted(c, msg) ==
    LET choices == IF msg.role = "assistant"
                   THEN detectChoicesInMessage(HtmlText(msg.content))
                   ELSE << >>
    IN  saveMessagesToStorage(
            [c EXCEPT !.chat = Append(c.chat,
                 Element(msg.role, msg.content, choices, FALSE))])

RECURSIVE RestoreMessages(_, _)
\* messages.forEach(msg => this.addMessage(...)) of initSession
RestoreMessages(c, messages) ==
    IF messages = << >> THEN c
    ELSE RestoreMessages(addPreformatted(c, Head(messages)), Tail(messages))

\* addMessage('', 'assistant', true): no save for a streaming message
addStreaming(c) ==
    [c EXCEPT !.chat = Append(c.chat, Element("assistant", NoHtml, << >>, FALSE))]

\* updateMessage(element, text); el is the element's position, and an
\* element that clearSession removed from the pane is updated out of sight
updateMessage(c, el, text) ==
    saveMessagesToStorage(
        IF el >= 1 /\ el <= Len(c.chat)
        THEN [c EXCEPT !.chat[el].content = formatMessage(text)]
        ELSE c)

(***************************************************************************)
(* Stream frames and read chunks.  A line is one "data: ..." line of the   *)
(* response body; cut says that the boundary between two reads fell inside *)
(* the line, so that neither read holds it whole.                          *)
(***************************************************************************)
Line(k, sid, content, cut) ==
    [k |-> k, sid |-> sid, content |-> content, cut |-> cut]

Frames(segs) ==
    {Line("session", id, << >>, FALSE) : id \in SessionIds}
        \cup {Line("text", NoSession, <<s>>, FALSE) : s \in segs}
        \cup {Line("done", NoSession, << >>, FALSE)}

BadLine == Line("bad", NoSession, << >>, FALSE)

CutLines(segs) == {[f EXCEPT !.cut = TRUE] : f \in Frames(segs)}

\* a read returns whole lines and may end inside a last one; the backend
\* sends done as its last frame
ChunksOf(first, last) ==
    {<<l>> : l \in last}
        \cup {<<f, l>> : f \in {x \in first : x.k # "done"}, l \in last}

\* reads that hold every frame whole
WholeChunks == ChunksOf(Frames(Segments), Frames(Segments))

\* reads with malformed lines and with a last line cut by the read boundary
Chunks ==
    ChunksOf(Frames(StreamSegments) \cup {BadLine},
             Frames(StreamSegments) \cup {BadLine} \cup CutLines(StreamSegments))

\* response texts with envelopes, choice forms, carousels and bare paths
NineOptions == <<"o1", "o2", "o3", "o4", "o5", "o6", "o7", "o8", "o9">>

EnvelopeChoices == <<Choice("", "Approve", ""), Choice("", "Redo", "")>>

TextSegments ==
    {Seg("post", PathA, "Hello", <<"#x">>),
     Seg("post", PathAenc, "", << >>),
     Seg("bare", PathB, "", << >>),
     Seg("carousel", NoPath, "Hello", << >>),
     Seg("cell", PathB, "", << >>),
     Seg("slide", PathB, "", << >>),
     Seg("slide", PathX, "", << >>),
     Seg("post", PathB, LongCaption, ManyTags),
     Seg("caption", NoPath, LongCaption, ManyTags),
     Seg("video", PathV, "", << >>),
     ChoiceSeg("emojiOut", "cam", "Yes", "sure"),
     ChoiceSeg("emojiIn", "ok", "yes", "fine"),
     OptionsSeg("paren", <<"yes", "", "No">>),
     OptionsSeg("paren", NineOptions),
     OptionsSeg("bullets", <<"Skip", "no">>),
     Envelope("complex", FALSE, TRUE,
              <<Seg("post", PathA, "Hello", <<"#x">>)>>, "true", EnvelopeChoices),
     Envelope("simple", TRUE, TRUE,
              <<OptionsSeg("paren", <<"yes", "", "No">>)>>, "false", << >>),
     Envelope("simple", FALSE, FALSE, << >>, "false", << >>)}

TextChunks == ChunksOf(Frames(TextSegments), Frames(TextSegments))

\* replies that offer choices: one in the text, one in an envelope
ChoiceSegments ==
    {OptionsSeg("paren", <<"yes", "", "No">>),
     Envelope("complex", FALSE, TRUE,
              <<Seg("post", PathA, "Hello", <<"#x">>)>>, "true", EnvelopeChoices)}


TextLines(chunk) == Len(SelectSeq(chunk, LAMBDA l : l.k = "text"))

(***************************************************************************)
(* Brand setup: the reference images of this.brandConfig.  An entry of     *)
(* referenceImages is the kind of its source: "file", "scraped", "preset". *)
(***************************************************************************)
RefMax == 5          \* referenceImages.length >= 5 / < 5
ScrapeLimit == 6     \* limit: 6 of the scrape request
MaxReads == 2        \* most FileReader reads in flight
MaxFiles == 2        \* most files of one selection or drop

NoPreset == "none"

NoBrand ==
    [referenceImages |-> << >>, scrapedImages |-> 0, selectedPreset |-> NoPreset]

NoPending == [reads |-> 0, scrape |-> FALSE, selected |-> 0]

RECURSIVE PushUpTo(_, _, _)
\* forEach: if (referenceImages.length < 5) referenceImages.push(...)
PushUpTo(refs, x, n) ==
    IF n = 0 THEN refs
    ELSE PushUpTo(IF Len(refs) < RefMax THEN Append(refs, x) ELSE refs, x, n - 1)

(***************************************************************************)
(* State.                                                                  *)
(***************************************************************************)
VARIABLES
    sessionId,             \* this.sessionId
    storedSession,         \* localStorage content_studio_session
    generatedImages,       \* this.generatedImages
    generatedImagesMeta,   \* this.generatedImagesMeta
    storedImages,          \* localStorage content_studio_images
    storedMeta,            \* localStorage content_studio_images_meta
    isProcessing,          \* this.isProcessing
    resumePending,         \* GET /sessions/<id> of initSession in flight
    createPending,         \* POST /sessions of initSession in flight
    rs,                    \* per turn: position and locals of its stream
    chatMessages,          \* the .message elements of this.chatMessages
    storedMessages,        \* localStorage content_studio_messages
    savedMessages,         \* initSession's savedMessages while its GET runs
    brandConfig,           \* this.brandConfig: referenceImages, scrapedImages,
                           \*   selectedPreset
    refPending             \* file reads and scrape request in flight, and the
                           \*   thumbs of scraped images marked selected

vars == <<sessionId, storedSession, generatedImages, generatedImagesMeta,
          storedImages, storedMeta, isProcessing, resumePending,
          createPending, rs, chatMessages, storedMessages, savedMessages,
          brandConfig, refPending>>

brandVars == <<brandConfig, refPending>>

chatVars == <<chatMessages, storedMessages>>

galleryVars == <<generatedImages, generatedImagesMeta, storedImages, storedMeta>>

\* pc: idle | fetching | reading | ended | failed
\* assistantMessage, firstContentReceived: locals of processStreamResponse
\* arrived: text of the text frames the backend has sent so far
\* handed: the buffer given to parseStructuredResponse at done, with arrived
\* signals: calls of hideProcessingIndicator made for a text frame
\* texts: text frames decoded;  skipped: a malformed line was skipped
\* doneSeen: a done frame was processed
\* messageElement: 0 for null, else the position of the element in the chat
\*   pane, or Detached once clearSession has emptied the pane
\* brand: the turn was started by sendBrandContext
\* prior: the sizes of the chat pane and of the stored transcript when
\*   processStreamResponse was entered
\* stale: clearSession ran while the turn was in flight
NewTurn(pc) ==
    [pc |-> pc, assistantMessage |-> << >>, firstContentReceived |-> FALSE,
     arrived |-> << >>, handed |-> Absent, signals |-> 0, texts |-> 0,
     skipped |-> FALSE, doneSeen |-> FALSE, messageElement |-> 0,
     brand |-> FALSE, prior |-> Absent, stale |-> FALSE, message |-> ""]

Detached == -1

RECURSIVE SumArrived(_)
SumArrived(ts) ==
    IF ts = {} THEN 0
    ELSE LET t == CHOOSE x \in ts : TRUE
         IN  Len(rs[t].arrived) + SumArrived(ts \ {t})

\* text segments sent to the turns now in flight
InFlight == SumArrived(Turns)

Free(t) == rs[t].pc \in {"idle", "ended", "failed"}

Gallery ==
    [imgs |-> generatedImages, meta |-> generatedImagesMeta,
     simgs |-> storedImages, smeta |-> storedMeta]

Chat == [chat |-> chatMessages, smsgs |-> storedMessages]

\* the number of elements in the pane and of messages in storage
Sizes(c) ==
    [chat |-> Len(c.chat),
     smsgs |-> IF c.smsgs.present THEN Len(c.smsgs.value) ELSE 0]

SetChat(c) ==
    /\ chatMessages' = c.chat
    /\ storedMessages' = c.smsgs

SetGallery(g) ==
    /\ generatedImages' = g.imgs
    /\ generatedImagesMeta' = g.meta
    /\ storedImages' = g.simgs
    /\ storedMeta' = g.smeta

Init ==
    /\ sessionId = NoSession
    /\ storedSession = Absent
    /\ generatedImages = << >>
    /\ generatedImagesMeta = NoMeta
    /\ storedImages = Absent
    /\ storedMeta = Absent
    /\ isProcessing = FALSE
    /\ resumePending = NoSession
    /\ createPending = 1
    /\ rs = [t \in Turns |-> NewTurn("idle")]
    /\ chatMessages = << >>
    /\ storedMessages = Absent
    /\ savedMessages = Absent
    /\ brandConfig = NoBrand
    /\ refPending = NoPending

(***************************************************************************)
(* processStreamResponse: one line of a chunk.  st holds what the loop     *)
(* body can change: sessionId, isProcessing, the gallery g and the turn r. *)
(***************************************************************************)
hideProcessingIndicator(st) == [st EXCEPT !.isProcessing = FALSE]

\* the first-content test without its latch: every text frame signals
FirstContent_NoLatch(st) ==
    [hideProcessingIndicator(st) EXCEPT !.r.signals = st.r.signals + 1]

\* if (!firstContentReceived) { firstContentReceived = true; hide }
FirstContent(st) ==
    IF ~st.r.firstContentReceived
    THEN [hideProcessingIndicator(st) EXCEPT
             !.r.firstContentReceived = TRUE,
             !.r.signals = st.r.signals + 1]
    ELSE st

\* the streaming element is created at the first text frame and shows
\* the buffer after every text frame
ShowText(st, buffer) ==
    LET fresh == st.r.messageElement = 0
        el == IF fresh THEN Len(st.c.chat) + 1 ELSE st.r.messageElement
    IN  [st EXCEPT !.c = updateMessage(IF fresh THEN addStreaming(st.c) ELSE st.c,
                                       el, buffer),
                   !.r.messageElement = el]

\* a text frame that also runs the extraction on the buffer so far
OnText_Eager(st, line) ==
    LET buffer == st.r.assistantMessage \o line.content
    IN  [ShowText(FirstContent(st), buffer) EXCEPT
            !.g = parseAssistantResponse(st.g, buffer),
            !.r.assistantMessage = buffer,
            !.r.texts = st.r.texts + 1]

\* a text frame: first-content signal, then the buffer grows and is shown
OnText(st, line) ==
    LET buffer == st.r.assistantMessage \o line.content
    IN  [ShowText(FirstContent(st), buffer) EXCEPT
            !.r.assistantMessage = buffer,
            !.r.texts = st.r.texts + 1]

InPane(c, el) == el >= 1 /\ el <= Len(c.chat)

\* renderStructuredChoiceButtons / renderChoiceButtons under the element
RenderChoices(c, el, choices, structured) ==
    IF InPane(c, el) /\ choices # << >>
    THEN [c EXCEPT !.chat[el].choices = choices,
                   !.chat[el].structured = structured,
                   !.chat[el].disabled = FALSE]
    ELSE c

\* handleStructuredResponse that falls back to the heuristic detector when
\* the envelope carries no choices
ShowStructured_Heuristic(c, el, response) ==
    LET shown == IF el # 0 THEN updateMessage(c, el, response.text) ELSE c
    IN  IF response.has_choices = "true"
        THEN RenderChoices(shown, el, response.choices, TRUE)
        ELSE RenderChoices(shown, el, detectChoicesInMessage(response.text), FALSE)

\* the transcript part of handleStructuredResponse
ShowStructured(c, el, response) ==
    LET shown == IF el # 0 THEN updateMessage(c, el, response.text) ELSE c
    IN  IF response.has_choices = "true"
        THEN RenderChoices(shown, el, response.choices, TRUE)
        ELSE shown

\* the transcript part of the text fallback of the done branch
ShowFallback(c, el, text) ==
    IF el # 0 THEN RenderChoices(c, el, detectChoicesInMessage(text), FALSE)
    ELSE c

OnDone(st) ==
    LET structuredResponse == parseStructuredResponse(st.r.assistantMessage)
        raw == RawText(st.r.assistantMessage)
        el == st.r.messageElement
    IN  [st EXCEPT
            !.g = IF structuredResponse.present
                  THEN handleStructuredResponse(st.g, structuredResponse.value)
                  ELSE parseAssistantResponse(st.g, raw),
            !.c = saveMessagesToStorage(
                      IF structuredResponse.present
                      THEN ShowStructured(st.c, el, structuredResponse.value)
                      ELSE ShowFallback(st.c, el, raw)),
            !.r.handed = Item([buffer |-> st.r.assistantMessage,
                               arrived |-> st.r.arrived]),
            !.r.doneSeen = TRUE]

\* a malformed line that ends the stream instead of being dropped
OnUndecodable_Abort(st) == [st EXCEPT !.r.skipped = TRUE, !.r.pc = "failed"]

\* a line that JSON.parse rejects: the empty catch drops it
OnUndecodable(st) == [st EXCEPT !.r.skipped = TRUE]

ProcessLine(st, line) ==
    LET sent == IF line.k = "text"
                THEN [st EXCEPT !.r.arrived = st.r.arrived \o line.content]
                ELSE st
    IN  IF line.cut THEN sent
        ELSE IF line.k = "bad" THEN OnUndecodable(sent)
        ELSE IF line.k = "session" THEN [sent EXCEPT !.sessionId = line.sid]
        ELSE IF line.k = "text" THEN OnText(sent, line)
        ELSE OnDone(sent)

RECURSIVE ProcessLines(_, _)
ProcessLines(st, lines) ==
    IF lines = << >> THEN st
    ELSE ProcessLines(ProcessLine(st, Head(lines)), Tail(lines))

StreamState(t) ==
    [sessionId |-> sessionId, isProcessing |-> isProcessing, g |-> Gallery,
     r |-> rs[t], c |-> Chat]

(***************************************************************************)
(* Turns.                                                                  *)
(***************************************************************************)
\* the notice that the catch of sendMessage / sendBrandContext adds
Notice(c, r) ==
    addMessage(c, IF r.brand THEN SavedText ELSE SorryText, "assistant")

\* sendMessage up to its await fetch
SendMessage(t) ==
    /\ Free(t)
    /\ ~isProcessing
    /\ Len(chatMessages) < MaxMsgs
    /\ SetChat(addMessage(Chat, UserText, "user"))
    /\ isProcessing' = TRUE
    /\ rs' = [rs EXCEPT ![t] = NewTurn("fetching")]
    /\ UNCHANGED <<sessionId, storedSession, galleryVars, resumePending,
                   createPending, savedMessages>>
    /\ UNCHANGED brandVars

\* the click handler of the n-th button under element el: the value goes
\* to the input, sendMessage() runs (and returns at once on an empty input
\* or while a turn is processing), then every button of the container is
\* disabled
ClickChoice(t, el, n) ==
    /\ InPane(Chat, el)
    /\ ~chatMessages[el].disabled
    /\ n \in 1..Len(chatMessages[el].choices)
    /\ LET value == chatMessages[el].choices[n].value
           sends == value # "" /\ ~isProcessing
           sent == IF sends
                   THEN addMessage(Chat, <<Seg("word", NoPath, value, << >>)>>,
                                   "user")
                   ELSE Chat
       IN  /\ sends => Free(t) /\ Len(chatMessages) < MaxMsgs
           /\ SetChat([sent EXCEPT !.chat[el].disabled = TRUE])
           /\ isProcessing' = (isProcessing \/ sends)
           /\ rs' = IF sends
                    THEN [rs EXCEPT ![t] = [NewTurn("fetching")
                                               EXCEPT !.message = value]]
                    ELSE rs
    /\ UNCHANGED <<sessionId, storedSession, galleryVars, resumePending,
                   createPending, savedMessages>>
    /\ UNCHANGED brandVars

\* handleBrandSubmit -> sendBrandContext up to its await fetch
SendBrandContext(t) ==
    /\ Free(t)
    /\ Len(chatMessages) < MaxMsgs
    /\ SetChat(addMessage(Chat, BrandText, "user"))
    /\ isProcessing' = TRUE
    /\ rs' = [rs EXCEPT ![t] = [NewTurn("fetching") EXCEPT !.brand = TRUE]]
    /\ UNCHANGED <<sessionId, storedSession, galleryVars, resumePending,
                   createPending, savedMessages>>
    /\ UNCHANGED brandVars

\* fetch resolves: processStreamResponse starts
FetchOk(t) ==
    /\ rs[t].pc = "fetching"
    /\ rs' = [rs EXCEPT ![t].pc = "reading", ![t].prior = Item(Sizes(Chat))]
    /\ UNCHANGED <<sessionId, storedSession, galleryVars, isProcessing,
                   resumePending, createPending, chatVars, savedMessages>>
    /\ UNCHANGED brandVars

\* fetch rejects: the catch of sendMessage / sendBrandContext
FetchFail(t) ==
    /\ rs[t].pc = "fetching"
    /\ isProcessing' = FALSE
    /\ SetChat(Notice(Chat, rs[t]))
    /\ rs' = [rs EXCEPT ![t] = NewTurn("failed")]
    /\ UNCHANGED <<sessionId, storedSession, galleryVars, resumePending,
                   createPending, savedMessages>>
    /\ UNCHANGED brandVars

\* reader.read() returns a chunk: the for loop over its lines; the backend
\* closes the stream after done, so no chunk follows a done frame
ReadChunk(t, chunk) ==
    /\ rs[t].pc = "reading"
    /\ ~rs[t].doneSeen
    /\ InFlight + TextLines(chunk) <= MaxBuf
    /\ LET st == ProcessLines(StreamState(t), chunk)
       IN  /\ Len(st.g.imgs) <= MaxGallery
           /\ sessionId' = st.sessionId
           /\ isProcessing' = st.isProcessing
           /\ SetGallery(st.g)
           /\ SetChat(st.c)
           /\ rs' = [rs EXCEPT ![t] = st.r]
    /\ UNCHANGED <<storedSession, resumePending, createPending, savedMessages>>
    /\ UNCHANGED brandVars

\* the locals of processStreamResponse are gone when it returns
ExitTurn(r, pc) == NewTurn(pc)

\* the loop ends without the closing test for a response with no content
ReadEnd_NoHide(t) ==
    /\ rs[t].pc = "reading"
    /\ rs' = [rs EXCEPT ![t] = ExitTurn(rs[t], "ended")]
    /\ UNCHANGED <<sessionId, storedSession, galleryVars, isProcessing,
                   resumePending, createPending, chatVars, savedMessages>>
    /\ UNCHANGED brandVars

\* reader.read() returns done: the loop ends
ReadEnd(t) ==
    /\ rs[t].pc = "reading"
    /\ isProcessing' = IF ~rs[t].firstContentReceived THEN FALSE ELSE isProcessing
    /\ rs' = [rs EXCEPT ![t] = ExitTurn(rs[t], "ended")]
    /\ UNCHANGED <<sessionId, storedSession, galleryVars, resumePending,
                   createPending, chatVars, savedMessages>>
    /\ UNCHANGED brandVars

\* reader.read() rejects: the catch of sendMessage / sendBrandContext
ReadFail(t) ==
    /\ rs[t].pc = "reading"
    /\ isProcessing' = FALSE
    /\ SetChat(Notice(Chat, rs[t]))
    /\ rs' = [rs EXCEPT ![t] = ExitTurn(rs[t], "failed")]
    /\ UNCHANGED <<sessionId, storedSession, galleryVars, resumePending,
                   createPending, savedMessages>>
    /\ UNCHANGED brandVars

(***************************************************************************)
(* Session.                                                                *)
(***************************************************************************)
\* the page is loaded again: constructor, then initSession up to its fetch
Reload ==
    /\ sessionId' = NoSession
    /\ generatedImages' = << >>
    /\ generatedImagesMeta' = NoMeta
    /\ isProcessing' = FALSE
    /\ rs' = [t \in Turns |-> NewTurn("idle")]
    /\ chatMessages' = << >>
    /\ IF storedSession.present
       THEN /\ resumePending' = storedSession.value
            /\ createPending' = 0
            /\ savedMessages' = storedMessages
       ELSE /\ resumePending' = NoSession
            /\ createPending' = 1
            /\ savedMessages' = Absent
    /\ UNCHANGED <<storedSession, storedImages, storedMeta, storedMessages>>
    /\ brandConfig' = NoBrand
    /\ refPending' = NoPending

\* GET /sessions/<id> answers ok: the session is restored
ResumeOk ==
    /\ resumePending # NoSession
    /\ sessionId' = resumePending
    /\ resumePending' = NoSession
    /\ LET restored == IF savedMessages.present
                       THEN RestoreMessages(Chat, savedMessages.value)
                       ELSE Chat
       IN  SetChat(restored)
    /\ savedMessages' = Absent
    /\ SetGallery(restoreImagesFromStorage(Gallery))
    /\ UNCHANGED <<storedSession, isProcessing, createPending, rs>>
    /\ UNCHANGED brandVars

\* GET /sessions/<id> answers not ok: initSession goes on to POST /sessions
ResumeStale ==
    /\ resumePending # NoSession
    /\ createPending < MaxCreates
    /\ resumePending' = NoSession
    /\ createPending' = createPending + 1
    /\ savedMessages' = Absent
    /\ UNCHANGED <<sessionId, storedSession, galleryVars, isProcessing, rs,
                   chatVars>>
    /\ UNCHANGED brandVars

\* POST /sessions answers: a new session starts fresh
CreateOk(id) ==
    /\ createPending > 0
    /\ createPending' = createPending - 1
    /\ sessionId' = id
    /\ storedSession' = Item(id)
    /\ storedImages' = Absent
    /\ generatedImages' = << >>
    /\ generatedImagesMeta' = NoMeta
    /\ storedMessages' = Absent
    /\ UNCHANGED <<storedMeta, isProcessing, resumePending, rs, chatMessages,
                   savedMessages>>
    /\ UNCHANGED brandVars

\* either fetch of initSession rejects: the catch
InitFail ==
    /\ \/ resumePending # NoSession
          /\ resumePending' = NoSession
          /\ savedMessages' = Absent
          /\ UNCHANGED createPending
       \/ createPending > 0
          /\ createPending' = createPending - 1
          /\ UNCHANGED <<resumePending, savedMessages>>
    /\ sessionId' = FallbackId
    /\ UNCHANGED <<storedSession, galleryVars, isProcessing, rs, chatVars>>
    /\ UNCHANGED brandVars

\* the New Session button: clearSession, then initSession up to its fetch
ClearSession ==
    /\ createPending < MaxCreates
    /\ storedSession' = Absent
    /\ storedImages' = Absent
    /\ storedMeta' = Absent
    /\ sessionId' = NoSession
    /\ generatedImages' = << >>
    /\ generatedImagesMeta' = NoMeta
    /\ createPending' = createPending + 1
    /\ storedMessages' = Absent
    /\ chatMessages' = << >>
    /\ rs' = [t \in Turns |->
                 IF rs[t].pc \in {"fetching", "reading"}
                 THEN [rs[t] EXCEPT
                          !.stale = TRUE,
                          !.messageElement = IF @ = 0 THEN 0 ELSE Detached]
                 ELSE rs[t]]
    /\ UNCHANGED <<isProcessing, resumePending, savedMessages>>
    /\ UNCHANGED brandVars

\* the refresh button: the list is rebuilt from itself
RefreshGallery ==
    /\ generatedImages # << >>
    /\ generatedImages' = generatedImages
    /\ UNCHANGED <<sessionId, storedSession, generatedImagesMeta, storedImages,
                   storedMeta, isProcessing, resumePending, createPending, rs,
                   chatVars, savedMessages>>
    /\ UNCHANGED brandVars

(***************************************************************************)
(* Brand setup handlers.                                                   *)
(***************************************************************************)
otherVars ==
    <<sessionId, storedSession, galleryVars, isProcessing, resumePending,
      createPending, rs, chatVars, savedMessages>>

\* handleReferenceSelect / the drop handler: addReferenceImage for each of
\* the n files, up to its reader.readAsDataURL; the length test of every
\* call sees the list as it is now
AddReferenceImages(n) ==
    /\ refPending.reads + n <= MaxReads
    /\ refPending' =
           IF Len(brandConfig.referenceImages) >= RefMax
           THEN refPending
           ELSE [refPending EXCEPT !.reads = refPending.reads + n]
    /\ UNCHANGED <<brandConfig, otherVars>>

\* reader.onload of addReferenceImage; the upload it then awaits only sets
\* fields of the entry
ReadLoaded ==
    /\ refPending.reads > 0
    /\ refPending' = [refPending EXCEPT !.reads = refPending.reads - 1]
    /\ brandConfig' =
           [brandConfig EXCEPT
               !.referenceImages = Append(brandConfig.referenceImages, "file")]
    /\ UNCHANGED otherVars

\* removeReferenceImage of entry i
RemoveReferenceImage(i) ==
    /\ i \in 1..Len(brandConfig.referenceImages)
    /\ brandConfig' =
           [brandConfig EXCEPT
               !.referenceImages =
                   SubSeq(brandConfig.referenceImages, 1, i - 1)
                       \o SubSeq(brandConfig.referenceImages, i + 1,
                                 Len(brandConfig.referenceImages))]
    /\ UNCHANGED <<refPending, otherVars>>

\* scrapeInstagram up to its await fetch: the button is disabled meanwhile
ScrapeStart ==
    /\ ~refPending.scrape
    /\ refPending' = [refPending EXCEPT !.scrape = TRUE]
    /\ UNCHANGED <<brandConfig, otherVars>>

\* scrapeInstagram from the answer on, with n images in it
ScrapeResult(n) ==
    /\ refPending.scrape
    /\ IF n > 0
       THEN /\ brandConfig' =
                  [brandConfig EXCEPT
                      !.scrapedImages = n,
                      !.referenceImages =
                          PushUpTo(brandConfig.referenceImages, "scraped", n)]
            /\ refPending' = [refPending EXCEPT !.scrape = FALSE, !.selected = n]
       ELSE /\ refPending' = [refPending EXCEPT !.scrape = FALSE]
            /\ UNCHANGED brandConfig
    /\ UNCHANGED otherVars

\* the click on a scraped thumb (selected becomes k) and
\* updateScrapedSelection
ToggleScraped(k) ==
    /\ brandConfig.scrapedImages > 0
    /\ k \in 0..brandConfig.scrapedImages
    /\ k \in {refPending.selected - 1, refPending.selected + 1}
    /\ refPending' = [refPending EXCEPT !.selected = k]
    /\ brandConfig' =
           [brandConfig EXCEPT
               !.referenceImages =
                   PushUpTo(SelectSeq(brandConfig.referenceImages,
                                      LAMBDA r : r # "scraped"),
                            "scraped", k)]
    /\ UNCHANGED otherVars

\* clearScrapedImages: the preview is hidden, its thumbs stay as they are
clearScrapedImages ==
    /\ brandConfig.scrapedImages > 0
    /\ brandConfig' =
           [brandConfig EXCEPT
               !.scrapedImages = 0,
               !.referenceImages = SelectSeq(brandConfig.referenceImages,
                                             LAMBDA r : r # "scraped")]
    /\ UNCHANGED <<refPending, otherVars>>

\* selectPreset: a second click on the selected preset deselects it
selectPreset(presetId) ==
    /\ brandConfig' =
           IF brandConfig.selectedPreset = presetId
           THEN [brandConfig EXCEPT !.selectedPreset = NoPreset,
                                    !.referenceImages = << >>]
           ELSE [brandConfig EXCEPT
                    !.selectedPreset = presetId,
                    \* the references the server lists for the preset
                    !.referenceImages = <<"preset", "preset">>]
    /\ UNCHANGED <<refPending, otherVars>>

Solo == {"t1"}

\* one turn at a time, whole frames, with session restore and reset; the
\* user sends nothing while the page is still resuming its session
Next ==
    \/ \E t \in Solo : resumePending = NoSession /\ SendMessage(t)
    \/ \E t \in Solo : resumePending = NoSession /\ SendBrandContext(t)
    \/ \E t \in Solo : FetchOk(t)
    \/ \E t \in Solo : FetchFail(t)
    \/ \E t \in Solo, chunk \in WholeChunks : ReadChunk(t, chunk)
    \/ \E t \in Solo : ReadEnd(t)
    \/ \E t \in Solo : ReadFail(t)
    \/ Reload
    \/ ResumeOk
    \/ ResumeStale
    \/ \E id \in SessionIds : CreateOk(id)
    \/ InitFail
    \/ ClearSession
    \/ RefreshGallery

Spec == Init /\ [][Next]_vars

\* turns as the user can start them, damaged lines, within one session
NextStream ==
    \/ \E t \in Turns : SendMessage(t)
    \/ \E t \in Turns : FetchOk(t)
    \/ \E t \in Turns : FetchFail(t)
    \/ \E t \in Turns, chunk \in Chunks : ReadChunk(t, chunk)
    \/ \E t \in Turns : ReadEnd(t)
    \/ \E t \in Turns : ReadFail(t)
    \/ \E id \in SessionIds : CreateOk(id)

SpecStream == Init /\ [][NextStream]_vars

\* the first turn of a session, over the rich response texts
NextText ==
    \/ \E t \in Solo : chatMessages = << >> /\ SendMessage(t)
    \/ \E t \in Solo : FetchOk(t)
    \/ \E t \in Solo, chunk \in TextChunks : ReadChunk(t, chunk)
    \/ \E t \in Solo : ReadEnd(t)
    \/ \E id \in SessionIds : CreateOk(id)

SpecText == Init /\ [][NextText]_vars

\* replies that offer choices, with the clicks on their buttons
NextChoice ==
    \/ \E t \in Turns : SendMessage(t)
    \/ \E t \in Turns : FetchOk(t)
    \/ \E t \in Turns,
          chunk \in ChunksOf(Frames(ChoiceSegments), Frames(ChoiceSegments)) :
           ReadChunk(t, chunk)
    \/ \E t \in Turns : ReadEnd(t)
    \/ \E id \in SessionIds : CreateOk(id)
    \/ \E t \in Turns, el \in 1..(MaxMsgs + 1), n \in 1..MaxChoices :
           ClickChoice(t, el, n)

SpecChoice == Init /\ [][NextChoice]_vars

\* the brand setup form: files, scraping and presets
NextRefs ==
    \/ \E n \in 1..MaxFiles : AddReferenceImages(n)
    \/ ReadLoaded
    \/ \E i \in 1..(RefMax + MaxReads) : RemoveReferenceImage(i)
    \/ ScrapeStart
    \/ \E n \in 0..ScrapeLimit : ScrapeResult(n)
    \/ \E k \in 0..ScrapeLimit : ToggleScraped(k)
    \/ clearScrapedImages
    \/ \E presetId \in {"preset1"} : selectPreset(presetId)

SpecRefs == Init /\ [][NextRefs]_vars

(***************************************************************************)
(* Fair streams: a fetch settles and a response body ends or fails.        *)
(***************************************************************************)
Fairness ==
    \A t \in Turns : /\ WF_vars(FetchOk(t) \/ FetchFail(t))
                     /\ WF_vars(ReadEnd(t) \/ ReadFail(t))

LiveSpec == SpecStream /\ Fairness

(***************************************************************************)
(* Properties.                                                             *)
(***************************************************************************)
RawPaths == {PathA, PathAenc, PathV, PathX}

Tuples ==
    [image : RawPaths, caption : {"", "Hello"}, hashtags : {<< >>, <<"#x">>}]

\* C1: the gallery never holds two items with the same normalized media
\* reference.
C1_UniqueMediaRef ==
    \A i, j \in 1..Len(generatedImages) :
        (i # j /\ sanitizeImagePath(generatedImages[i]) # NoPath)
            => sanitizeImagePath(generatedImages[i])
                   # sanitizeImagePath(generatedImages[j])

\* C2: when a tuple for a media reference already in the gallery is
\* reconciled, a stored non-empty caption is not replaced by an empty one and
\* a stored non-empty hashtag list is not replaced by an empty one, whatever
\* the other field of the tuple holds.
C2_FieldsProtected ==
    \A tu \in Tuples :
        LET k == sanitizeImagePath(tu.image)
            g == ReconcilePair(Gallery, tu)
        IN  (Includes(generatedImages, tu.image) /\ k \in DOMAIN generatedImagesMeta)
                => /\ generatedImagesMeta[k].caption # "" => g.meta[k].caption # ""
                   /\ generatedImagesMeta[k].hashtags # << >>
                          => g.meta[k].hashtags # << >>

Known(p) ==
    /\ sanitizeImagePath(p) # NoPath
    /\ \E i \in 1..Len(generatedImages) :
           sanitizeImagePath(generatedImages[i]) = sanitizeImagePath(p)

\* C3: reconciling a tuple with empty caption and empty hashtags for a media
\* reference already in the gallery changes neither the list, the metadata
\* nor the persisted snapshot.
C3_EmptyTupleNoOp ==
    \A p \in RawPaths :
        Known(p) => ReconcilePair(Gallery, [image |-> p, caption |-> "",
                                            hashtags |-> << >>]) = Gallery

\* C4: reconciling a tuple twice in sequence gives the same gallery as
\* reconciling it once.
C4_Idempotent ==
    \A tu \in Tuples :
        ReconcilePair(ReconcilePair(Gallery, tu), tu) = ReconcilePair(Gallery, tu)

C4_Witness ==
    /\ Includes(generatedImages, PathA)
    /\ PathA \in DOMAIN generatedImagesMeta
    /\ generatedImagesMeta[PathA] = [caption |-> "Hello", hashtags |-> <<"#x">>]
    /\ storedImages = Item(generatedImages)

Streaming == {t \in Turns : rs[t].pc \in {"fetching", "reading"} /\ ~rs[t].doneSeen}

\* C5: from the start of a turn until its stream reaches done no other turn
\* is started: at most one turn is in flight.
C5_OneStreamAtATime == Cardinality(Streaming) <= 1

\* C6: a step of a response that processes no done frame (text frames, the
\* end of the stream, a failed read or request) leaves the gallery list, its
\* metadata and their persisted copies unchanged.
C6_OnlyAtDone ==
    [][(\E t \in Turns : /\ rs[t].pc \in {"fetching", "reading"}
                         /\ rs'[t] # rs[t]
                         /\ rs'[t].pc # "idle"
                         /\ createPending' = createPending   \* no reset
                         /\ rs'[t].doneSeen = rs[t].doneSeen)
          => UNCHANGED galleryVars]_vars

C6_Witness ==
    \E t \in Turns : /\ rs[t].pc = "reading"
                     /\ rs[t].texts > 0
                     /\ ~rs[t].doneSeen
                     /\ generatedImages # << >>
                     /\ storedImages = Item(generatedImages)

\* C7: the buffer handed to the structured-response parser at done is the
\* concatenation of the text frames that arrived before it, however the
\* stream was cut into reads.
C7_BufferIsArrivedText ==
    \A t \in Turns :
        rs[t].handed.present
            => rs[t].handed.value.buffer = rs[t].handed.value.arrived

NoMalformed(chunk) == SelectSeq(chunk, LAMBDA l : l.k # "bad")

Observable(st) == [st EXCEPT !.r.skipped = FALSE]

\* C8: a malformed line is skipped and the stream goes on: a read with
\* malformed lines has the effect of the same read without them.
C8_MalformedSkipped ==
    \A t \in Turns :
        rs[t].pc = "reading" =>
            \A chunk \in Chunks :
                Observable(ProcessLines(StreamState(t), chunk))
                    = Observable(ProcessLines(StreamState(t), NoMalformed(chunk)))

C8_Witness ==
    \E t \in Turns : /\ rs[t].pc = "reading"
                     /\ rs[t].skipped
                     /\ rs[t].texts > 0
                     /\ rs[t].doneSeen

\* C9: within a response the first-content signal has been given once if a
\* text frame has been decoded and not at all otherwise.
C9_FirstContentOnce ==
    \A t \in Turns :
        rs[t].pc = "reading"
            => rs[t].signals = IF rs[t].texts > 0 THEN 1 ELSE 0

C9_Witness ==
    \E t \in Turns : rs[t].pc = "reading" /\ rs[t].texts = 2 /\ rs[t].signals = 1

\* C10: the processing state is always retired: whenever isProcessing is
\* true it later becomes false.
C10_PendingRetired == isProcessing ~> ~isProcessing

C10_Witness ==
    \E t \in Turns : rs[t].pc = "failed" /\ ~isProcessing

StoredSize == IF storedMessages.present THEN Len(storedMessages.value) ELSE 0

\* C11: a failed read leaves the transcript what it was before the response
\* started arriving: after the step of the failure the chat pane and the
\* persisted transcript hold, the failure notice apart, no more messages than
\* when the stream was opened.
C11_FailedReadKeepsTranscript ==
    [][\A t \in Turns :
          (rs[t].pc = "reading" /\ rs'[t].pc = "failed" /\ ~rs[t].stale)
              => /\ Len(chatMessages') <= rs[t].prior.value.chat + 1
                 /\ StoredSize' <= rs[t].prior.value.smsgs + 1]_vars

\* C12: a candidate that fails to parse is skipped and the remaining
\* strategies are still tried: whenever the embedded simple or the embedded
\* complex strategy finds an envelope in the buffer handed over at done, the
\* parser returns a structured response.
C12_FailedCandidateSkipped ==
    \A t \in Turns :
        rs[t].handed.present =>
            LET buffer == rs[t].handed.value.buffer
            IN  (SimpleEnvelope(buffer).present
                     \/ ComplexEnvelope(buffer, FALSE).present)
                    => parseStructuredResponse(buffer).present

\* C13: when the parser obtains a structured response at done, the gallery is
\* reconciled from the envelope's text field (not from the raw buffer) and the
\* choices shown under the message are the envelope's choices if has_choices
\* is true and none otherwise: the heuristic detector contributes nothing.
C13_EnvelopeSupersedes ==
    [][\A t \in Turns :
          (/\ ~rs[t].doneSeen
           /\ rs'[t].doneSeen
           /\ parseStructuredResponse(rs'[t].assistantMessage).present)
              => LET response == parseStructuredResponse(rs'[t].assistantMessage).value
                     el == rs'[t].messageElement
                 IN  /\ Gallery' = parseAssistantResponse(Gallery, response.text)
                     /\ InPane(Chat', el)
                            => chatMessages'[el].choices
                                   = IF response.has_choices = "true"
                                     THEN response.choices
                                     ELSE << >>]_vars

C13_Witness ==
    \E t \in Turns :
        /\ rs[t].doneSeen
        /\ parseStructuredResponse(rs[t].assistantMessage).present
        /\ RawText(rs[t].assistantMessage)
               # parseStructuredResponse(rs[t].assistantMessage).value.text
        /\ InPane(Chat, rs[t].messageElement)
        /\ chatMessages[rs[t].messageElement].structured
        /\ generatedImages = <<PathA>>
        /\ generatedImagesMeta[PathA].caption = "Hello"

\* the text the extractor is run on at done
ExtractedText(buffer) ==
    IF parseStructuredResponse(buffer).present
    THEN parseStructuredResponse(buffer).value.text
    ELSE RawText(buffer)

\* C14: the tuples the extractor returns for a response have pairwise
\* distinct media references (normalized paths).
C14_DistinctTuples ==
    \A t \in Turns :
        rs[t].handed.present =>
            LET pairs == extractImageCaptionPairs(
                             ExtractedText(rs[t].handed.value.buffer))
            IN  \A i, j \in 1..Len(pairs) :
                    i # j => sanitizeImagePath(pairs[i].image)
                                 # sanitizeImagePath(pairs[j].image)

\* C15: when a strategy yields at least one tuple for a response, an image
\* reference of the same response that the strategy did not pair, and that
\* the gallery did not hold, is not in the gallery after the response.
C15_NoBareAfterPairs ==
    [][\A t \in Turns :
          (~rs[t].doneSeen /\ rs'[t].doneSeen)
              => LET text == ExtractedText(rs'[t].assistantMessage)
                     pairs == extractImageCaptionPairs(text)
                     bares == PathsOf(text, "bare", << >>)
                 IN  pairs # << >>
                         => \A n \in 1..Len(bares) :
                                (/\ ~Includes(generatedImages, bares[n])
                                 /\ \A i \in 1..Len(pairs) : pairs[i].image # bares[n])
                                    => ~Includes(generatedImages', bares[n])]_vars

C15_Witness ==
    \E t \in Turns :
        /\ rs[t].doneSeen
        /\ extractImageCaptionPairs(ExtractedText(rs[t].assistantMessage)) # << >>
        /\ PathsOf(ExtractedText(rs[t].assistantMessage), "bare", << >>) = <<PathB>>
        /\ generatedImages = <<PathA>>

\* the turns whose done frame took the text fallback
Fallen == {t \in Turns : /\ rs[t].doneSeen
                         /\ ~parseStructuredResponse(rs[t].assistantMessage).present}

\* C16: a choice detection pass over a response returns all n deduplicated
\* candidates when 2 <= n <= 8 and none when n is 0, 1 or more than 8, and
\* these are the choices shown under the message.
C16_ChoiceBounds ==
    \A t \in Fallen :
        LET text == RawText(rs[t].assistantMessage)
            found == DistinctCandidates(text)
            result == detectChoicesInMessage(text)
            el == rs[t].messageElement
        IN  /\ result = IF Len(found) >= 2 /\ Len(found) <= 8 THEN found ELSE << >>
            /\ Len(result) = 0 \/ (Len(result) >= 2 /\ Len(result) <= 8)
            /\ InPane(Chat, el) => chatMessages[el].choices = result

C16_Witness ==
    \E t \in Fallen :
        /\ Len(DistinctCandidates(RawText(rs[t].assistantMessage))) = 9
        /\ InPane(Chat, rs[t].messageElement)
        /\ chatMessages[rs[t].messageElement].choices = << >>

\* the candidates of a text in the order of the claim: emoji outside bold,
\* emoji inside bold, parenthesized alternatives, bulleted list
Ordered(text) ==
    Candidates(text, "emojiOut") \o Candidates(text, "emojiIn")
        \o Candidates(text, "paren") \o Candidates(text, "bullets")

FirstWith(cands, label) ==
    MinOf({n \in 1..Len(cands) : ToLower(cands[n].label) = ToLower(label)})

\* C17: the deduplicated choices of a response have pairwise distinct labels
\* ignoring case; each is the first candidate, in strategy order, with its
\* label, icon and description as found; every candidate label is represented
\* and the choices keep the order of their first candidates.
C17_FirstLabelKept ==
    \A t \in Fallen :
        LET text == RawText(rs[t].assistantMessage)
            cands == Ordered(text)
            found == DistinctCandidates(text)
        IN  /\ \A i, j \in 1..Len(found) :
                   i # j => ToLower(found[i].label) # ToLower(found[j].label)
            /\ \A n \in 1..Len(cands) :
                   \E i \in 1..Len(found) :
                       /\ ToLower(found[i].label) = ToLower(cands[n].label)
                       /\ found[i] = cands[FirstWith(cands, cands[n].label)]
            /\ \A i, j \in 1..Len(found) :
                   i < j => FirstWith(cands, found[i].label)
                                < FirstWith(cands, found[j].label)

C17_Witness ==
    \E t \in Fallen :
        LET text == RawText(rs[t].assistantMessage)
            found == DistinctCandidates(text)
        IN  /\ Len(Candidates(text, "emojiOut")) = 1
            /\ Len(Candidates(text, "paren")) > 0
            /\ Len(found) < Len(Ordered(text))
            /\ Len(found) >= 2
            /\ found[1].icon = "cam" /\ found[1].description = "sure"
            /\ InPane(Chat, rs[t].messageElement)
            /\ chatMessages[rs[t].messageElement].choices = found

\* the items of a gallery as reconciliation built them: the card of an item
\* carries what was stored under its normalized path (exact while no two
\* items share a normalized path)
ItemsOf(g) ==
    [i \in 1..Len(g.imgs) |->
        LET k == sanitizeImagePath(g.imgs[i])
            known == k \in DOMAIN g.meta
        IN  [mediaRef |-> g.imgs[i],
             caption |-> IF known THEN g.meta[k].caption ELSE "",
             hashtags |-> IF known THEN g.meta[k].hashtags ELSE << >>]]

\* the items a page load rebuilds from the persisted snapshot of g: each card
\* carries what the stored metadata holds under the path as stored
RestoredItems(g) ==
    LET r == restoreImagesFromStorage([g EXCEPT !.imgs = << >>, !.meta = NoMeta])
        m == IF g.smeta.present THEN g.smeta.value ELSE NoMeta
    IN  [i \in 1..Len(r.imgs) |->
            LET known == r.imgs[i] \in DOMAIN m
            IN  [mediaRef |-> r.imgs[i],
                 caption |-> IF known THEN m[r.imgs[i]].caption ELSE "",
                 hashtags |-> IF known THEN m[r.imgs[i]].hashtags ELSE << >>]]

Persisted ==
    /\ storedImages = Item(generatedImages)
    /\ storedMeta = Item(generatedImagesMeta)

\* C18: whenever the gallery has just been persisted, restoring the snapshot
\* rebuilds the same items in the same order, each with the same caption and
\* the same hashtags (galleries without two items of one normalized path).
C18_RoundTrip ==
    (Persisted /\ C1_UniqueMediaRef) => RestoredItems(Gallery) = ItemsOf(Gallery)

\* the persisted snapshot as a restore reads it: a missing key is empty
Snapshot ==
    [items |-> IF storedImages.present THEN storedImages.value ELSE << >>,
     meta |-> IF storedMeta.present THEN storedMeta.value ELSE NoMeta]

\* no fetch of initSession is in flight
Settled == resumePending = NoSession /\ createPending = 0

\* C19: once session initialisation has completed, after every operation the
\* persisted snapshot, items and metadata, equals the in-memory gallery.
C19_SnapshotIsGallery ==
    Settled => /\ Snapshot.items = generatedImages
               /\ Snapshot.meta = generatedImagesMeta

\* C20: after a full-session reset nothing from before it becomes observable:
\* a step of a turn that was in flight when the session was reset changes
\* neither the gallery list, its metadata nor their persisted copies.
C20_ResetIsFinal ==
    [][\A t \in Turns :
          (/\ rs[t].stale
           /\ rs'[t] # rs[t]
           /\ createPending' = createPending)      \* no further reset
              => UNCHANGED galleryVars]_vars

\* C21: apart from the New Session reset (and a page load, which starts from
\* an empty list), every step leaves the gallery list a prefix of what it
\* becomes: items are only appended.
C21_AppendOnly ==
    [][~(ClearSession \/ Reload)
          => /\ Len(generatedImages) <= Len(generatedImages')
             /\ SubSeq(generatedImages', 1, Len(generatedImages))
                   = generatedImages]_vars

\* C22: a media reference that fails the normalizer's validation is dropped:
\* every entry of the gallery list and of the persisted list is accepted by
\* sanitizeImagePath.
C22_InvalidDropped ==
    /\ \A i \in 1..Len(generatedImages) :
          sanitizeImagePath(generatedImages[i]) # NoPath
    /\ storedImages.present
         => \A i \in 1..Len(storedImages.value) :
               sanitizeImagePath(storedImages.value[i]) # NoPath

\* C23: every caption stored for a gallery item, in memory or persisted,
\* has at most 800 characters.
C23_CaptionBounded ==
    /\ \A k \in DOMAIN generatedImagesMeta :
          Len(generatedImagesMeta[k].caption) <= CaptionMax
    /\ storedMeta.present
         => \A k \in DOMAIN storedMeta.value :
               Len(storedMeta.value[k].caption) <= CaptionMax

\* a video that inherited a caption cut to the limit
C23_Witness ==
    /\ PathV \in DOMAIN generatedImagesMeta
    /\ Len(generatedImagesMeta[PathV].caption) = CaptionMax

\* C24: the hashtag list stored for a gallery item contains no tag twice.
C24_DistinctTags ==
    \A k \in DOMAIN generatedImagesMeta :
        LET tags == generatedImagesMeta[k].hashtags
        IN  \A i, j \in 1..Len(tags) : tags[i] = tags[j] => i = j

\* C25: the hashtag list stored for a gallery item, in memory or persisted,
\* never has more than 25 entries.
C25_TagsBounded ==
    /\ \A k \in DOMAIN generatedImagesMeta :
          Len(generatedImagesMeta[k].hashtags) <= HashtagMax
    /\ storedMeta.present
         => \A k \in DOMAIN storedMeta.value :
               Len(storedMeta.value[k].hashtags) <= HashtagMax

\* a video that inherited a list cut to the limit
C25_Witness ==
    /\ PathV \in DOMAIN generatedImagesMeta
    /\ Len(generatedImagesMeta[PathV].hashtags) = HashtagMax

\* C26: a video reference a response adds to the gallery carries the
\* caption and hashtags of the last image of the list, the images of the
\* same response included.
C26_VideoInherits ==
    [][resumePending' = resumePending
         => \A i \in 1..Len(generatedImages') :
               LET video == generatedImages'[i]
                   lastImage == LastImage(SubSeq(generatedImages', 1, i))
                   \* what an item shows: the entry kept under its reference
                   ItemMeta(path) ==
                       IF sanitizeImagePath(path) \in DOMAIN generatedImagesMeta'
                       THEN generatedImagesMeta'[sanitizeImagePath(path)]
                       ELSE [caption |-> "", hashtags |-> << >>]
               IN  /\ video[Len(video)] \in VideoExts
                   /\ ~Includes(generatedImages, video)
                   /\ lastImage # NoPath
                   => ItemMeta(video) = ItemMeta(lastImage)]_vars

\* C27: the buttons of a choice are disabled only in a step that submits
\* the value of one of its choices as a new user turn.
C27_ChoiceSubmitted ==
    [][\A el \in 1..Len(chatMessages) :
          /\ el <= Len(chatMessages')
          /\ ~chatMessages[el].disabled
          /\ chatMessages'[el].disabled
          => \E t \in Turns, n \in 1..Len(chatMessages[el].choices) :
                /\ rs[t].pc # "fetching"
                /\ rs'[t].pc = "fetching"
                /\ rs'[t].message = chatMessages[el].choices[n].value
                /\ chatMessages'[Len(chatMessages')].role = "user"]_vars

\* C28: every key of the gallery metadata map is the normalized reference
\* of an item of the gallery list.
C28_MetaKeysListed ==
    \A key \in DOMAIN generatedImagesMeta :
        \E i \in 1..Len(generatedImages) :
            sanitizeImagePath(generatedImages[i]) = key

\* C29: whenever the in-memory sessionId is set, the persisted session
\* record holds the same id.
C29_SessionPersisted ==
    sessionId # NoSession => storedSession = Item(sessionId)

\* C30: the brand configuration never holds more than 5 reference images.
C30_AtMostFiveRefs == Len(brandConfig.referenceImages) <= RefMax

====
